---- MODULE Spec2Model ----
(***************************************************************************)
(* A model of get_hdr_metadata.py: the rational values of HDR side data,   *)
(* the per-encoder mapping tables, the formatting of the parameter         *)
(* fragments and parse_frame_data, which assembles them.                   *)
(*                                                                         *)
(* Python strings are TLA+ strings (TLC evaluates Len, \o and SubSeq on    *)
(* them).  Python floats are IEEE-754 doubles, modelled exactly as a sign, *)
(* a 53-bit mantissa (a sequence of bits, most significant first) and the  *)
(* binary weight of the mantissa's last bit; every float operation the     *)
(* program performs is computed to the correctly rounded result.           *)
(***************************************************************************)
EXTENDS Integers, Sequences, FiniteSets, TLC

VARIABLES
    pc,                 \* position of the running function
    frame_data,         \* the frame descriptor handed to parse_frame_data
    color_data,         \* the ColorData object (NoObj until built)
    x265_params,        \* local x265_params of parse_frame_data
    libaom_av1_params,  \* local libaom_av1_params
    libsvtav1_params,   \* local libsvtav1_params
    side_data_list,     \* local side_data_list (Unbound until read)
    scanned,            \* number of side-data entries the loop has passed
    stdout,             \* the arguments of the print calls made so far
    raised,             \* the exception that left the function ("" if none)
    raw_val,            \* argument of MDItem(raw_val)
    md_item,            \* the MDItem object built from raw_val
    target,             \* argument of expand_to_ratio
    ratio               \* result of expand_to_ratio

vars == <<pc, frame_data, color_data, x265_params, libaom_av1_params,
          libsvtav1_params, side_data_list, scanned, stdout, raised,
          raw_val, md_item, target, ratio>>

(***************************************************************************)
(* Bounds of the model.                                                    *)
(***************************************************************************)
MaxSideData == 2    \* longest side_data_list explored
MaxNum == 12        \* largest |numerator| of a generated "N/D" string
MaxDen == 12        \* largest denominator of a generated "N/D" string

(***************************************************************************)
(* Python values.                                                          *)
(***************************************************************************)
None == <<>>
Some(v) == <<v>>
NoObj == [bound |-> FALSE]
Unbound == "<unbound>"

Max(a, b) == IF a >= b THEN a ELSE b
Abs(n) == IF n < 0 THEN -n ELSE n

Char(s, i) == SubSeq(s, i, i)

\* sub in s, for Python strings
Contains(s, sub) ==
    \E i \in 1..(Len(s) - Len(sub) + 1) : SubSeq(s, i, i + Len(sub) - 1) = sub

\* x in lst, for a Python list
InList(x, lst) == \E i \in 1..Len(lst) : lst[i] = x

Digits == "0123456789"
DigitSet == {Char(Digits, d) : d \in 1..10}
DigitVal(c) == CHOOSE d \in 0..9 : Char(Digits, d + 1) = c

\* str(n) for an int
RECURSIVE NatStr(_)
NatStr(n) == IF n < 10 THEN Char(Digits, n + 1)
             ELSE NatStr(n \div 10) \o Char(Digits, (n % 10) + 1)
IntStr(n) == IF n < 0 THEN "-" \o NatStr(-n) ELSE NatStr(n)

\* s.split(sep) for a one-character sep
RECURSIVE SplitFrom(_, _, _, _)
SplitFrom(s, sep, i, cur) ==
    IF i > Len(s) THEN <<cur>>
    ELSE IF Char(s, i) = sep THEN <<cur>> \o SplitFrom(s, sep, i + 1, "")
    ELSE SplitFrom(s, sep, i + 1, cur \o Char(s, i))
Split(s, sep) == SplitFrom(s, sep, 1, "")

\* int(s): surrounding whitespace is dropped, then an optional sign and
\* decimal digits, single underscores allowed between digits.
Whitespace == {" ", "\t", "\n", "\r", "\f"}
RECURSIVE LStrip(_)
LStrip(s) == IF Len(s) > 0 /\ Char(s, 1) \in Whitespace
             THEN LStrip(SubSeq(s, 2, Len(s))) ELSE s
RECURSIVE RStrip(_)
RStrip(s) == IF Len(s) > 0 /\ Char(s, Len(s)) \in Whitespace
             THEN RStrip(SubSeq(s, 1, Len(s) - 1)) ELSE s
Strip(s) == RStrip(LStrip(s))

Unsigned(t) == IF Len(t) > 0 /\ Char(t, 1) \in {"+", "-"}
               THEN SubSeq(t, 2, Len(t)) ELSE t

IsIntLiteral(s) ==
    LET b == Unsigned(Strip(s)) IN
    /\ Len(b) > 0
    /\ \A i \in 1..Len(b) : Char(b, i) \in DigitSet \cup {"_"}
    /\ Char(b, 1) \in DigitSet
    /\ Char(b, Len(b)) \in DigitSet
    /\ ~Contains(b, "__")

RECURSIVE DigitsVal(_, _, _)
DigitsVal(b, i, acc) ==
    IF i > Len(b) THEN acc
    ELSE IF Char(b, i) = "_" THEN DigitsVal(b, i + 1, acc)
    ELSE DigitsVal(b, i + 1, 10 * acc + DigitVal(Char(b, i)))

PyInt(s) ==
    LET t == Strip(s)
        v == DigitsVal(Unsigned(t), 1, 0)
    IN IF Char(t, 1) = "-" THEN -v ELSE v

(***************************************************************************)
(* IEEE-754 double arithmetic.  A float is [neg, zero, bits, e]: its value *)
(* is (+/-) bits * 2^e, bits being Prec binary digits whose first is 1.    *)
(* Exponent range is not modelled: the program's values are far from both  *)
(* overflow and the subnormals.  The operators are exact for               *)
(* |numerator| < 2^24, 0 < |denominator| < 2^16 and results below 2^30.    *)
(***************************************************************************)
Prec == 53

Pow2Tab == <<1, 2, 4, 8, 16, 32, 64, 128, 256, 512, 1024, 2048, 4096, 8192,
             16384, 32768, 65536, 131072, 262144, 524288, 1048576, 2097152,
             4194304, 8388608, 16777216, 33554432, 67108864, 134217728,
             268435456, 536870912, 1073741824>>
Pow2(k) == Pow2Tab[k + 1]

BitLen(n) == CHOOSE k \in 0..30 :
                 n \div Pow2(k) = 0 /\ (k = 0 \/ n \div Pow2(k - 1) # 0)

\* the w low binary digits of v, most significant first
FixedBits(v, w) == [i \in 1..w |-> (v \div Pow2(w - i)) % 2]
Binary(n) == FixedBits(n, BitLen(n))

RECURSIVE BitsRange(_, _, _)
BitsRange(bits, lo, hi) ==
    IF lo > hi THEN 0
    ELSE IF lo = hi THEN bits[lo]
    ELSE LET mid == (lo + hi) \div 2
         IN BitsRange(bits, lo, mid) * Pow2(hi - mid) + BitsRange(bits, mid + 1, hi)

Zeros(n) == [i \in 1..n |-> 0]
AllOnes(bits) == \A i \in 1..Len(bits) : bits[i] = 1

\* bits + 1, of the same length; not for an all-ones input
Inc(bits) ==
    LET p == CHOOSE i \in 1..Len(bits) :
                 bits[i] = 0 /\ \A j \in (i + 1)..Len(bits) : bits[j] = 1
    IN [i \in 1..Len(bits) |-> IF i < p THEN bits[i] ELSE IF i = p THEN 1 ELSE 0]

\* bits without its leading zeros; bits holds a 1
StripZeros(bits) ==
    LET p == CHOOSE i \in 1..Len(bits) :
                 bits[i] = 1 /\ \A j \in 1..(i - 1) : bits[j] = 0
    IN SubSeq(bits, p, Len(bits))

\* Round-to-nearest, ties-to-even, of bits * 2^e (+ a non-zero tail below the
\* last bit when sticky) to Prec significant bits; bits[1] = 1.
RoundBits(neg, bits, sticky, e) ==
    IF Len(bits) <= Prec
    THEN [neg |-> neg, zero |-> FALSE,
          bits |-> bits \o Zeros(Prec - Len(bits)), e |-> e - (Prec - Len(bits))]
    ELSE LET mant == SubSeq(bits, 1, Prec)
             guard == bits[Prec + 1]
             rest == sticky \/ \E i \in (Prec + 2)..Len(bits) : bits[i] = 1
             up == guard = 1 /\ (rest \/ mant[Prec] = 1)
             e1 == e + (Len(bits) - Prec)
         IN IF ~up THEN [neg |-> neg, zero |-> FALSE, bits |-> mant, e |-> e1]
            ELSE IF AllOnes(mant)
                 THEN [neg |-> neg, zero |-> FALSE,
                       bits |-> <<1>> \o Zeros(Prec - 1), e |-> e1 + 1]
                 ELSE [neg |-> neg, zero |-> FALSE, bits |-> Inc(mant), e |-> e1]

\* Long division of r/b (r < b) below the binary point, 14 digits a step:
\* the digits of that many steps, and the remainder left.
RECURSIVE DivFrac(_, _, _)
DivFrac(r, b, steps) ==
    IF steps = 0 THEN [bits |-> <<>>, rem |-> r]
    ELSE LET t == r * Pow2(14)
             d == DivFrac(t % b, b, steps - 1)
         IN [bits |-> FixedBits(t \div b, 14) \o d.bits, rem |-> d.rem]

\* a / b for Python ints (true division, correctly rounded); b # 0
FloatDiv(a, b) ==
    LET neg == (a < 0) # (b < 0) IN
    IF a = 0 THEN [neg |-> neg, zero |-> TRUE, bits |-> <<>>, e |-> 0]
    ELSE LET d == DivFrac(Abs(a) % Abs(b), Abs(b), 6)  \* 84 digits below the point
             all == Binary(Abs(a) \div Abs(b)) \o d.bits
         IN RoundBits(neg, StripZeros(all), d.rem # 0, -84)

\* bits * n for 0 < n < 2^24, exactly, 6 digits a step from the right:
\* the product of bits[1..hi] and n, plus carry.
RECURSIVE MulFrom(_, _, _, _)
MulFrom(bits, n, hi, carry) ==
    IF hi <= 6
    THEN Binary(BitsRange(bits, 1, hi) * n + carry)
    ELSE LET t == BitsRange(bits, hi - 5, hi) * n + carry
         IN MulFrom(bits, n, hi - 6, t \div 64) \o FixedBits(t % 64, 6)
MulBits(bits, n) == MulFrom(bits, n, Len(bits), 0)

\* n * f for a Python int n and a float f
FloatMulInt(n, f) ==
    LET neg == (n < 0) # f.neg IN
    IF n = 0 \/ f.zero THEN [neg |-> neg, zero |-> TRUE, bits |-> <<>>, e |-> 0]
    ELSE RoundBits(neg, MulBits(f.bits, Abs(n)), FALSE, f.e)

\* int(f): truncation towards zero
FloatToInt(f) ==
    IF f.zero \/ Prec + f.e <= 0 THEN 0
    ELSE LET v == BitsRange(f.bits, 1, Prec + f.e)
         IN IF f.neg THEN -v ELSE v

\* round(f, 4) in units of 1/10000: the float rounded half-even to four decimals
Round4Units(f) ==
    IF f.zero THEN 0
    ELSE LET p == MulBits(f.bits, 10000)
             n == Len(p) + f.e        \* number of digits above the binary point
             int == IF n <= 0 THEN 0 ELSE BitsRange(p, 1, n)
             half == IF n < 0 THEN 0 ELSE p[n + 1]
             rest == \E i \in (Max(n, 0) + 2)..Len(p) : p[i] = 1
             up == half = 1 /\ (rest \/ int % 2 = 1)
         IN IF up THEN int + 1 ELSE int

Pad4(k) == SubSeq("000", 1, 4 - Len(NatStr(k))) \o NatStr(k)

\* f"{round(f, 4):.4f}"
Format4f(f) ==
    LET k == Round4Units(f) IN
    (IF f.neg THEN "-" ELSE "") \o NatStr(k \div 10000) \o "." \o Pad4(k % 10000)

(***************************************************************************)
(* The mapping tables.  A Python list is a tuple, a dict a function.       *)
(***************************************************************************)
x265_valid_color_matrix ==
    <<"gbr", "bt709", "unknown", "reserved", "fcc", "bt470bg", "smpte170m",
      "smpte240m", "ycgco", "bt2020nc", "bt2020c", "smpte2085",
      "chroma-derived-nc", "chroma-derived-c", "ictcp">>

\* Mutant: the aliases are spelled as libaom spells them.
x265_color_matrix_mapping_LibaomNames ==
    ("bt2020_ncl" :> "bt2020ncl") @@ ("bt2020_cl" :> "bt2020cl")

x265_color_matrix_mapping ==
    ("bt2020_ncl" :> "bt2020nc") @@ ("bt2020_cl" :> "bt2020c")

libaom_valid_matrix_coefficients ==
    <<"bt709", "fcc73", "bt470bg", "bt601", "smpte240", "ycgco",
      "bt2020ncl", "bt2020cl", "smpte2085", "chromncl", "chromcl", "ictcp">>

libaom_matrix_coefficients_mapping ==
    ("fcc" :> "fcc73") @@ ("smpte240m" :> "smpte240") @@
    ("bt2020nc" :> "bt2020ncl") @@ ("bt2020_ncl" :> "bt2020ncl") @@
    ("bt2020c" :> "bt2020cl") @@ ("bt2020_cl" :> "bt2020cl") @@
    ("chroma-derived-nc" :> "chromncl") @@ ("chroma-derived-c" :> "chromcl")

libaom_get_matrix_coefficients(color_space) ==
    IF InList(color_space, libaom_valid_matrix_coefficients)
    THEN Some(color_space)
    ELSE IF color_space \in DOMAIN libaom_matrix_coefficients_mapping
    THEN Some(libaom_matrix_coefficients_mapping[color_space])
    ELSE None

libsvtav1_color_primaries_mapping ==
    ("bt709" :> 1) @@ ("bt470m" :> 4) @@ ("bt470bg" :> 5) @@ ("bt601" :> 6) @@
    ("smpte240" :> 7) @@ ("film" :> 8) @@ ("bt2020" :> 9) @@ ("xyz" :> 10) @@
    ("smpte431" :> 11) @@ ("smpte432" :> 12) @@ ("ebu3213" :> 22)

libsvtav1_get_cp_code(color_primaries) ==
    IF color_primaries \in DOMAIN libsvtav1_color_primaries_mapping
    THEN libsvtav1_color_primaries_mapping[color_primaries]
    ELSE 2

libsvtav1_transfer_characteristics_mapping ==
    ("bt709" :> 1) @@ ("bt470m" :> 4) @@ ("bt470bg" :> 5) @@ ("bt601" :> 6) @@
    ("smpte240" :> 7) @@ ("linear" :> 8) @@ ("log100" :> 9) @@
    ("log100-sqrt10" :> 10) @@ ("iec61966" :> 11) @@ ("bt1361" :> 12) @@
    ("srgb" :> 13) @@ ("bt2020-10" :> 14) @@ ("bt2020-12" :> 15) @@
    ("smpte2084" :> 16) @@ ("smpte428" :> 17) @@ ("hlg" :> 18)

\* Mutant: the transfer tag is looked up in the primaries table.
libsvtav1_get_tch_code_PrimariesTable(transfer_characteristics) ==
    IF transfer_characteristics \in DOMAIN libsvtav1_color_primaries_mapping
    THEN libsvtav1_color_primaries_mapping[transfer_characteristics]
    ELSE 2

libsvtav1_get_tch_code(transfer_characteristics) ==
    IF transfer_characteristics \in DOMAIN libsvtav1_transfer_characteristics_mapping
    THEN libsvtav1_transfer_characteristics_mapping[transfer_characteristics]
    ELSE 2

(***************************************************************************)
(* Exceptions.  A constructor yields either the object, [ok |-> TRUE, ...], *)
(* or [ok |-> FALSE, exc |-> <exception class>].                           *)
(***************************************************************************)
Raise(e) == [ok |-> FALSE, exc |-> e]

(***************************************************************************)
(* class MDItem                                                            *)
(***************************************************************************)
MDItem(raw) ==
    LET val_list == Split(raw, "/") IN
    IF ~IsIntLiteral(val_list[1]) THEN Raise("ValueError")
    ELSE IF Len(val_list) < 2 THEN Raise("IndexError")
    ELSE IF ~IsIntLiteral(val_list[2]) THEN Raise("ValueError")
    ELSE IF PyInt(val_list[2]) = 0 THEN Raise("ZeroDivisionError")
    ELSE [ok |-> TRUE,
          raw_value |-> raw,
          numerator |-> PyInt(val_list[1]),
          denominator |-> PyInt(val_list[2]),
          float_value |-> FloatDiv(PyInt(val_list[1]), PyInt(val_list[2]))]

MDItem_str(self) == self.raw_value

expand_to_ratio(self, denominator) ==
    FloatToInt(FloatMulInt(self.numerator, FloatDiv(denominator, self.denominator)))

(***************************************************************************)
(* class MDItemColorXY                                                     *)
(***************************************************************************)
\* MDItem(side_data[key])
MDItemAt(side_data, key) ==
    IF key \notin DOMAIN side_data THEN Raise("KeyError")
    ELSE MDItem(side_data[key])

MDItemColorXY(side_data, prefix) ==
    LET x == MDItemAt(side_data, prefix \o "_x") IN
    IF ~x.ok THEN x
    ELSE LET y == MDItemAt(side_data, prefix \o "_y") IN
         IF ~y.ok THEN y
         ELSE [ok |-> TRUE, prefix |-> prefix, x_data |-> x, y_data |-> y]

MDItemColorXY_str(self) ==
    self.prefix \o "_x: " \o MDItem_str(self.x_data) \o "\n" \o
    self.prefix \o "_y: " \o MDItem_str(self.y_data)

MDItemColorXY_to_x265(self) ==
    "(" \o IntStr(expand_to_ratio(self.x_data, 50000)) \o "," \o
    IntStr(expand_to_ratio(self.y_data, 50000)) \o ")"

MDItemColorXY_to_libsvtav1(self) ==
    "(" \o Format4f(self.x_data.float_value) \o "," \o
    Format4f(self.y_data.float_value) \o ")"

(***************************************************************************)
(* class MasteringDisplayData                                              *)
(***************************************************************************)
MasteringDisplayData(side_data) ==
    LET red == MDItemColorXY(side_data, "red") IN
    IF ~red.ok THEN red ELSE
    LET green == MDItemColorXY(side_data, "green") IN
    IF ~green.ok THEN green ELSE
    LET blue == MDItemColorXY(side_data, "blue") IN
    IF ~blue.ok THEN blue ELSE
    LET white_point == MDItemColorXY(side_data, "white_point") IN
    IF ~white_point.ok THEN white_point ELSE
    LET min_luminance == MDItemAt(side_data, "min_luminance") IN
    IF ~min_luminance.ok THEN min_luminance ELSE
    LET max_luminance == MDItemAt(side_data, "max_luminance") IN
    IF ~max_luminance.ok THEN max_luminance ELSE
    [ok |-> TRUE, red |-> red, green |-> green, blue |-> blue,
     white_point |-> white_point,
     min_luminance |-> min_luminance, max_luminance |-> max_luminance]

MasteringDisplayData_str(self) ==
    MDItemColorXY_str(self.red) \o "\n" \o MDItemColorXY_str(self.green) \o "\n" \o
    MDItemColorXY_str(self.blue) \o "\n" \o MDItemColorXY_str(self.white_point) \o "\n" \o
    "min_luminance: " \o MDItem_str(self.min_luminance) \o
    "\nmax_luminance" \o MDItem_str(self.max_luminance)

\* Mutant: the luminance pair is written (min,max).
MasteringDisplayData_to_x265_params_MinFirst(self) ==
    "display=G" \o MDItemColorXY_to_x265(self.green) \o
    "B" \o MDItemColorXY_to_x265(self.blue) \o
    "R" \o MDItemColorXY_to_x265(self.red) \o
    "WP" \o MDItemColorXY_to_x265(self.white_point) \o
    "L(" \o IntStr(expand_to_ratio(self.min_luminance, 10000)) \o "," \o
    IntStr(expand_to_ratio(self.max_luminance, 10000)) \o ")"

MasteringDisplayData_to_x265_params(self) ==
    "display=G" \o MDItemColorXY_to_x265(self.green) \o
    "B" \o MDItemColorXY_to_x265(self.blue) \o
    "R" \o MDItemColorXY_to_x265(self.red) \o
    "WP" \o MDItemColorXY_to_x265(self.white_point) \o
    "L(" \o IntStr(expand_to_ratio(self.max_luminance, 10000)) \o "," \o
    IntStr(expand_to_ratio(self.min_luminance, 10000)) \o ")"

MasteringDisplayData_to_libsvtav1_params(self) ==
    "mastering-display=G" \o MDItemColorXY_to_libsvtav1(self.green) \o
    "B" \o MDItemColorXY_to_libsvtav1(self.blue) \o
    "R" \o MDItemColorXY_to_libsvtav1(self.red) \o
    "WP" \o MDItemColorXY_to_libsvtav1(self.white_point) \o
    "L(" \o Format4f(self.max_luminance.float_value) \o "," \o
    Format4f(self.min_luminance.float_value) \o ")"

(***************************************************************************)
(* class ContentLightLevelData                                             *)
(***************************************************************************)
ContentLightLevelData(side_data) ==
    IF "max_content" \notin DOMAIN side_data THEN Raise("KeyError")
    ELSE IF "max_average" \notin DOMAIN side_data THEN Raise("KeyError")
    ELSE [ok |-> TRUE, max_content |-> side_data["max_content"],
          max_average |-> side_data["max_average"]]

ContentLightLevelData_str(self) ==
    "max_content: " \o IntStr(self.max_content) \o
    ", max_average " \o IntStr(self.max_average)

ContentLightLevelData_to_x265_params(self) ==
    "max-cll=" \o IntStr(self.max_content) \o "," \o IntStr(self.max_average)

ContentLightLevelData_to_libsvtav1_params(self) ==
    "content-light=" \o IntStr(self.max_content) \o "," \o IntStr(self.max_average)

(***************************************************************************)
(* class ColorData                                                         *)
(***************************************************************************)
ColorData(frame) ==
    [bound |-> TRUE,
     pix_fmt |-> frame["pix_fmt"],
     color_space |-> frame["color_space"],
     color_primaries |-> frame["color_primaries"],
     color_transfer |-> frame["color_transfer"]]

ColorData_str(self) ==
    "pix_fmt: " \o self.pix_fmt \o "\ncolor_space: " \o self.color_space \o
    "\ncolor_primaries: " \o self.color_primaries \o
    "\ncolor_transfer: " \o self.color_transfer

to_ffmpeg_options(self) ==
    "-pix_fmt " \o self.pix_fmt \o " -colorspace " \o self.color_space \o " " \o
    "-color_trc " \o self.color_transfer \o
    " -color_primaries " \o self.color_primaries

\* Mutant: the alias table is never consulted.
to_x265_params_NoAlias(self) ==
    IF InList(self.color_space, x265_valid_color_matrix)
    THEN "colormatrix=" \o self.color_space
    ELSE ""

to_x265_params(self) ==
    IF InList(self.color_space, x265_valid_color_matrix)
    THEN "colormatrix=" \o self.color_space
    ELSE IF self.color_space \in DOMAIN x265_color_matrix_mapping
    THEN "colormatrix=" \o x265_color_matrix_mapping[self.color_space]
    ELSE ""

to_libaom_av1_params(self) ==
    LET res == "color-primaries=" \o self.color_primaries \o
               ":transfer-characteristics=" \o self.color_transfer
        mc == libaom_get_matrix_coefficients(self.color_space)
    IN IF mc # None THEN res \o ":matrix-coefficients=" \o mc[1] ELSE res

to_libsvtav1_params(self) ==
    LET res == "color-primaries=" \o IntStr(libsvtav1_get_cp_code(self.color_primaries))
               \o ":transfer-characteristics="
               \o IntStr(libsvtav1_get_tch_code(self.color_transfer))
    IN IF Contains(self.color_space, "bt2020")
       THEN res \o ":matrix-coefficients=9" ELSE res

(***************************************************************************)
(* parse_frame_data, a step at a time.  pc is "validate", "color",         *)
(* "side_data", "scan", then one of "returned" (the early return),         *)
(* "done" (ran to its end) or "raised" (left by an exception).             *)
(***************************************************************************)
color_params == <<"pix_fmt", "color_space", "color_primaries", "color_transfer">>

\* Mutant: the check forgets the last mandatory key.
missing_params_ForgetsLast(frame) ==
    SelectSeq(SubSeq(color_params, 1, 3), LAMBDA x : x \notin DOMAIN frame)

\* [x for x in color_params if x not in frame_data.keys()]
missing_params(frame) == SelectSeq(color_params, LAMBDA x : x \notin DOMAIN frame)

\* str() of a list of strings
RECURSIVE JoinRepr(_, _)
JoinRepr(lst, i) ==
    IF i > Len(lst) THEN ""
    ELSE (IF i > 1 THEN ", " ELSE "") \o "'" \o lst[i] \o "'" \o JoinRepr(lst, i + 1)
ListRepr(lst) == "[" \o JoinRepr(lst, 1) \o "]"

\* Mutant: "=" for "+=", the last fragment wins.
AppendParam_Overwrites(params, fragment) == ":" \o fragment

\* params += ":" + fragment
AppendParam(params, fragment) == params \o ":" \o fragment

\* lines 227-235: the mandatory keys
Validate ==
    /\ pc = "validate"
    /\ LET missing == missing_params(frame_data) IN
       IF Len(missing) # 0
       THEN /\ stdout' = stdout \o
                   <<"Missing " \o ListRepr(missing) \o " parameters in frame metadata!",
                     "Probably not an HDR stream!", "Exit!">>
            /\ pc' = "returned"
       ELSE /\ pc' = "color"
            /\ UNCHANGED stdout
    /\ UNCHANGED <<frame_data, color_data, x265_params, libaom_av1_params,
                   libsvtav1_params, side_data_list, scanned, raised,
                   raw_val, md_item, target, ratio>>

\* lines 237-244: the ColorData object and its three fragments
BuildColorData ==
    /\ pc = "color"
    /\ color_data' = ColorData(frame_data)
    /\ stdout' = stdout \o <<"Color Data:", ColorData_str(color_data'), "">>
    /\ x265_params' = to_x265_params(color_data')
    /\ libaom_av1_params' = to_libaom_av1_params(color_data')
    /\ libsvtav1_params' = to_libsvtav1_params(color_data')
    /\ pc' = "side_data"
    /\ UNCHANGED <<frame_data, side_data_list, scanned, raised,
                   raw_val, md_item, target, ratio>>

\* line 246: side_data_list = frame_data["side_data_list"]
ReadSideDataList ==
    /\ pc = "side_data"
    /\ IF "side_data_list" \in DOMAIN frame_data
       THEN /\ side_data_list' = Some(frame_data["side_data_list"])
            /\ pc' = "scan"
            /\ UNCHANGED raised
       ELSE /\ raised' = "KeyError"
            /\ pc' = "raised"
            /\ UNCHANGED side_data_list
    /\ UNCHANGED <<frame_data, color_data, x265_params, libaom_av1_params,
                   libsvtav1_params, scanned, stdout,
                   raw_val, md_item, target, ratio>>

\* lines 247-262: one iteration of the loop over side_data_list
ScanSideData ==
    /\ pc = "scan"
    /\ scanned < Len(side_data_list[1])
    /\ LET side_data == side_data_list[1][scanned + 1] IN
       IF "side_data_type" \notin DOMAIN side_data
       THEN /\ raised' = "KeyError"
            /\ pc' = "raised"
            /\ UNCHANGED <<x265_params, libsvtav1_params, stdout, scanned>>
       ELSE IF side_data["side_data_type"] = "Mastering display metadata"
       THEN LET mastering_display_data == MasteringDisplayData(side_data) IN
            IF ~mastering_display_data.ok
            THEN /\ raised' = mastering_display_data.exc
                 /\ pc' = "raised"
                 /\ UNCHANGED <<x265_params, libsvtav1_params, stdout, scanned>>
            ELSE /\ x265_params' = AppendParam(x265_params,
                        MasteringDisplayData_to_x265_params(mastering_display_data))
                 /\ libsvtav1_params' = AppendParam(libsvtav1_params,
                        MasteringDisplayData_to_libsvtav1_params(mastering_display_data))
                 /\ stdout' = stdout \o
                        <<"Mastering display metadata:",
                          MasteringDisplayData_str(mastering_display_data), "">>
                 /\ scanned' = scanned + 1
                 /\ UNCHANGED <<pc, raised>>
       ELSE IF side_data["side_data_type"] = "Content light level metadata"
       THEN LET content_light_level_data == ContentLightLevelData(side_data) IN
            IF ~content_light_level_data.ok
            THEN /\ raised' = content_light_level_data.exc
                 /\ pc' = "raised"
                 /\ UNCHANGED <<x265_params, libsvtav1_params, stdout, scanned>>
            ELSE /\ x265_params' = AppendParam(x265_params,
                        ContentLightLevelData_to_x265_params(content_light_level_data))
                 /\ libsvtav1_params' = AppendParam(libsvtav1_params,
                        ContentLightLevelData_to_libsvtav1_params(content_light_level_data))
                 /\ stdout' = stdout \o
                        <<"Content light level metadata:",
                          ContentLightLevelData_str(content_light_level_data), "">>
                 /\ scanned' = scanned + 1
                 /\ UNCHANGED <<pc, raised>>
       ELSE /\ scanned' = scanned + 1
            /\ UNCHANGED <<x265_params, libsvtav1_params, stdout, pc, raised>>
    /\ UNCHANGED <<frame_data, color_data, libaom_av1_params, side_data_list,
                   raw_val, md_item, target, ratio>>

\* lines 264-269: the four parameter strings
Emit ==
    /\ pc = "scan"
    /\ scanned = Len(side_data_list[1])
    /\ stdout' = stdout \o
           <<"\nFFmpeg options: " \o to_ffmpeg_options(color_data) \o "\n",
             "x265 params: " \o x265_params \o "\n",
             "libsvtav1 params: " \o libsvtav1_params \o "\n",
             "libaom-av1 params: " \o libaom_av1_params \o "\n",
             "Done!">>
    /\ pc' = "done"
    /\ UNCHANGED <<frame_data, color_data, x265_params, libaom_av1_params,
                   libsvtav1_params, side_data_list, scanned, raised,
                   raw_val, md_item, target, ratio>>

(***************************************************************************)
(* Frame descriptors: what json.loads hands over from ffprobe's output.    *)
(***************************************************************************)
Mastering(red_x, red_y, green_x, green_y, blue_x, blue_y, wp_x, wp_y, min_l, max_l) ==
    [side_data_type |-> "Mastering display metadata",
     red_x |-> red_x, red_y |-> red_y, green_x |-> green_x, green_y |-> green_y,
     blue_x |-> blue_x, blue_y |-> blue_y,
     white_point_x |-> wp_x, white_point_y |-> wp_y,
     min_luminance |-> min_l, max_luminance |-> max_l]

ContentLight(max_content, max_average) ==
    [side_data_type |-> "Content light level metadata",
     max_content |-> max_content, max_average |-> max_average]

\* the side-data blocks a list is drawn from
SideDataBlocks ==
    { Mastering("34000/50000", "16000/50000", "13250/50000", "34500/50000",
                "7500/50000", "3000/50000", "15635/50000", "16450/50000",
                "50/10000", "10000000/10000"),
      Mastering("17/25", "8/25", "53/200", "69/100", "3/20", "3/50",
                "11/11", "1/3", "1/200", "1000/1"),
      Mastering("17/25", "8/25", "53/200", "69/100", "3/20", "0.06",
                "3127/10000", "329/1000", "1/200", "1000/1"),
      Mastering("17/25", "8/25", "53/200", "69/100", "3/20", "3/50",
                "3127/10000", "329/1000", "1/200/7", "1000/1"),
      Mastering("17/25", "8/25", "53/200", "69/100", "3/20", "3/50",
                "3127/10000", "329/0", "1/200", "1000/1"),
      ContentLight(1000, 400),
      ContentLight(4000, 1000),
      [side_data_type |-> "DOVI configuration record", dv_profile |-> 8] }

RECURSIVE ListsUpTo(_)
ListsUpTo(n) ==
    IF n = 0 THEN {<<>>}
    ELSE LET shorter == ListsUpTo(n - 1)
         IN shorter \cup {Append(l, b) : l \in {s \in shorter : Len(s) = n - 1},
                                          b \in SideDataBlocks}

ColorSpaces == {"bt2020_ncl", "rgb"}

AllKeys == {"pix_fmt", "color_space", "color_primaries", "color_transfer",
            "side_data_list"}

Restrict(f, keys) == [k \in keys |-> f[k]]

FrameDescriptors ==
    { Restrict([pix_fmt |-> "yuv420p10le", color_space |-> cs,
                color_primaries |-> "bt2020", color_transfer |-> "smpte2084",
                side_data_list |-> sdl], keys) :
        cs \in ColorSpaces, sdl \in ListsUpTo(MaxSideData), keys \in SUBSET AllKeys }

Idle == /\ raw_val = "" /\ md_item = NoObj /\ target = 0 /\ ratio = 0

Init ==
    /\ pc = "validate"
    /\ frame_data \in FrameDescriptors
    /\ color_data = NoObj
    /\ x265_params = Unbound
    /\ libaom_av1_params = Unbound
    /\ libsvtav1_params = Unbound
    /\ side_data_list = None
    /\ scanned = 0
    /\ stdout = <<>>
    /\ raised = ""
    /\ Idle

Next == Validate \/ BuildColorData \/ ReadSideDataList \/ ScanSideData \/ Emit

Spec == Init /\ [][Next]_vars

(***************************************************************************)
(* MDItem on its own: the constructor, then expand_to_ratio and __str__    *)
(* on the object it built.                                                 *)
(***************************************************************************)
\* the denominators expand_to_ratio is called with (to_x265, to_x265_params)
Targets == {50000, 10000}

OtherRawValues ==
    {"", "5", "/", "/2", "1/", "a/2", "1/b", "0.06", "1.5/2", "1/2.0",
     "1/2/3", "1//2", "7/5/", "3/4/x", " 1/2", "+1/2", "1/ 2 ", "1_0/5",
     "1__0/5", "_1/5", "1 /2", "1- /2", "--1/2"}

RawValues ==
    {IntStr(n) \o "/" \o IntStr(d) : n \in (-MaxNum)..MaxNum, d \in 0..MaxDen}
        \cup OtherRawValues

NoFrame == <<>>

InitMDItem ==
    /\ pc = "MDItem"
    /\ raw_val \in RawValues
    /\ target \in Targets
    /\ md_item = NoObj
    /\ ratio = 0
    /\ raised = ""
    /\ stdout = <<>>
    /\ frame_data = NoFrame
    /\ color_data = NoObj
    /\ x265_params = Unbound
    /\ libaom_av1_params = Unbound
    /\ libsvtav1_params = Unbound
    /\ side_data_list = None
    /\ scanned = 0

\* lines 108-113: MDItem(raw_val)
Construct ==
    /\ pc = "MDItem"
    /\ LET item == MDItem(raw_val) IN
       IF item.ok
       THEN md_item' = item /\ pc' = "built" /\ UNCHANGED raised
       ELSE raised' = item.exc /\ pc' = "raised" /\ UNCHANGED md_item
    /\ UNCHANGED <<frame_data, color_data, x265_params, libaom_av1_params,
                   libsvtav1_params, side_data_list, scanned, stdout,
                   raw_val, target, ratio>>

\* lines 122-123: md_item.expand_to_ratio(target)
ExpandToRatio ==
    /\ pc = "built"
    /\ ratio' = expand_to_ratio(md_item, target)
    /\ pc' = "expanded"
    /\ UNCHANGED <<frame_data, color_data, x265_params, libaom_av1_params,
                   libsvtav1_params, side_data_list, scanned, stdout, raised,
                   raw_val, md_item, target>>

\* lines 115-116: print(md_item)
PrintItem ==
    /\ pc = "expanded"
    /\ stdout' = Append(stdout, MDItem_str(md_item))
    /\ pc' = "printed"
    /\ UNCHANGED <<frame_data, color_data, x265_params, libaom_av1_params,
                   libsvtav1_params, side_data_list, scanned, raised,
                   raw_val, md_item, target, ratio>>

NextMDItem == Construct \/ ExpandToRatio \/ PrintItem

SpecMDItem == InitMDItem /\ [][NextMDItem]_vars

(***************************************************************************)
(* ColorData on its own: the four formatting methods of one descriptor,    *)
(* each called once, in any order.                                         *)
(***************************************************************************)
RangeOf(lst) == {lst[i] : i \in 1..Len(lst)}

ColorSpaceTags ==
    RangeOf(x265_valid_color_matrix) \cup DOMAIN x265_color_matrix_mapping
        \cup RangeOf(libaom_valid_matrix_coefficients)
        \cup DOMAIN libaom_matrix_coefficients_mapping
        \cup {"rgb", "", "BT2020", "Bt2020nc", "bt202", "xbt2020", "bt-2020",
              "arib-std-b67-bt2020-x", "bt2020 ", "unspecified"}

PrimariesTags ==
    DOMAIN libsvtav1_color_primaries_mapping
        \cup {"unknown", "smpte170m", "BT709", "jedec-p22", ""}

TransferTags ==
    DOMAIN libsvtav1_transfer_characteristics_mapping
        \cup {"unknown", "arib-std-b67", "smpte170m", "bt2020", "HLG"}

\* every primaries tag and every transfer tag, not every pair of them
PrimariesTransfer ==
    {<<p, "smpte2084">> : p \in PrimariesTags}
        \cup {<<"bt2020", t>> : t \in TransferTags}
        \cup {<<"unknown", "unknown">>, <<"bt709", "bt709">>}

InitColorData ==
    /\ pc = "ColorData"
    /\ \E cs \in ColorSpaceTags, pt \in PrimariesTransfer :
           color_data = ColorData([pix_fmt |-> "yuv420p10le", color_space |-> cs,
                                   color_primaries |-> pt[1],
                                   color_transfer |-> pt[2]])
    /\ x265_params = Unbound
    /\ libaom_av1_params = Unbound
    /\ libsvtav1_params = Unbound
    /\ stdout = <<>>
    /\ frame_data = NoFrame
    /\ side_data_list = None
    /\ scanned = 0
    /\ raised = ""
    /\ Idle

\* lines 199-204
ToX265Params ==
    /\ pc = "ColorData"
    /\ x265_params = Unbound
    /\ x265_params' = to_x265_params(color_data)
    /\ UNCHANGED <<pc, frame_data, color_data, libaom_av1_params,
                   libsvtav1_params, side_data_list, scanned, stdout, raised,
                   raw_val, md_item, target, ratio>>

\* lines 209-214
ToLibaomAv1Params ==
    /\ pc = "ColorData"
    /\ libaom_av1_params = Unbound
    /\ libaom_av1_params' = to_libaom_av1_params(color_data)
    /\ UNCHANGED <<pc, frame_data, color_data, x265_params,
                   libsvtav1_params, side_data_list, scanned, stdout, raised,
                   raw_val, md_item, target, ratio>>

\* lines 219-224
ToLibsvtav1Params ==
    /\ pc = "ColorData"
    /\ libsvtav1_params = Unbound
    /\ libsvtav1_params' = to_libsvtav1_params(color_data)
    /\ UNCHANGED <<pc, frame_data, color_data, x265_params,
                   libaom_av1_params, side_data_list, scanned, stdout, raised,
                   raw_val, md_item, target, ratio>>

\* lines 195-197, printed as line 264 does
ToFfmpegOptions ==
    /\ pc = "ColorData"
    /\ stdout = <<>>
    /\ stdout' = <<"\nFFmpeg options: " \o to_ffmpeg_options(color_data) \o "\n">>
    /\ UNCHANGED <<pc, frame_data, color_data, x265_params, libaom_av1_params,
                   libsvtav1_params, side_data_list, scanned, raised,
                   raw_val, md_item, target, ratio>>

NextColorData ==
    ToX265Params \/ ToLibaomAv1Params \/ ToLibsvtav1Params \/ ToFfmpegOptions

SpecColorData == InitColorData /\ [][NextColorData]_vars

(***************************************************************************)
(* Vocabulary of the properties.                                           *)
(***************************************************************************)
MandatoryKeys == {"pix_fmt", "color_space", "color_primaries", "color_transfer"}

ParamLinePrefixes ==
    {"\nFFmpeg options: ", "x265 params: ", "libsvtav1 params: ", "libaom-av1 params: "}

StartsWith(s, p) == Len(s) >= Len(p) /\ SubSeq(s, 1, Len(p)) = p
EndsWith(s, p) == Len(s) >= Len(p) /\ SubSeq(s, Len(s) - Len(p) + 1, Len(s)) = p

Printed(prefix) == \E i \in 1..Len(stdout) : StartsWith(stdout[i], prefix)
EmitsSomeParams == \E prefix \in ParamLinePrefixes : Printed(prefix)
EmitsAllParams == \A prefix \in ParamLinePrefixes : Printed(prefix)

IsMastering(block) ==
    /\ "side_data_type" \in DOMAIN block
    /\ block["side_data_type"] = "Mastering display metadata"
IsContentLight(block) ==
    /\ "side_data_type" \in DOMAIN block
    /\ block["side_data_type"] = "Content light level metadata"

RationalKeys ==
    {"red_x", "red_y", "green_x", "green_y", "blue_x", "blue_y",
     "white_point_x", "white_point_y", "min_luminance", "max_luminance"}

\* "N/D" with integer N and non-zero integer D
IsRationalString(str) ==
    LET parts == Split(str, "/") IN
    /\ Len(parts) = 2
    /\ IsIntLiteral(parts[1])
    /\ IsIntLiteral(parts[2])
    /\ PyInt(parts[2]) # 0

HasMalformedRational(block) ==
    \E k \in RationalKeys : k \notin DOMAIN block \/ ~IsRationalString(block[k])

\* p / q rounded to the nearest integer, ties to the even one (Python's round)
RoundQuotient(p, q) ==
    LET pp == IF q < 0 THEN -p ELSE p
        qq == Abs(q)
        fl == pp \div qq
        rem == pp - fl * qq
    IN IF 2 * rem > qq \/ (2 * rem = qq /\ fl % 2 = 1) THEN fl + 1 ELSE fl

(***************************************************************************)
(* C1.  A frame descriptor lacking any of the four mandatory keys ends in   *)
(* the early return: no exception, no ColorData, side_data_list never read  *)
(* or scanned, none of the four parameter strings computed or printed.     *)
(***************************************************************************)
C1_MissingKeysReturnEarly ==
    (pc # "validate" /\ \E k \in MandatoryKeys : k \notin DOMAIN frame_data) =>
        /\ pc = "returned"
        /\ raised = ""
        /\ color_data = NoObj
        /\ side_data_list = None
        /\ scanned = 0
        /\ x265_params = Unbound
        /\ libaom_av1_params = Unbound
        /\ libsvtav1_params = Unbound
        /\ ~EmitsSomeParams

C1_Witness ==
    /\ pc = "returned"
    /\ DOMAIN frame_data = AllKeys \ {"color_transfer"}
    /\ Len(frame_data["side_data_list"]) = MaxSideData
    /\ IsMastering(frame_data["side_data_list"][1])

(***************************************************************************)
(* C2.  While and after parse_frame_data scans side_data_list, the x265    *)
(* and the libsvtav1 strings are the ColorData fragment followed by one     *)
(* ":"-prefixed fragment for each mastering-display or content-light block  *)
(* the scan has passed, in list order, repeated tags included; a block     *)
(* with another tag adds nothing.                                          *)
(***************************************************************************)
FragmentA(block) ==
    IF IsMastering(block)
    THEN ":" \o MasteringDisplayData_to_x265_params(MasteringDisplayData(block))
    ELSE IF IsContentLight(block)
    THEN ":" \o ContentLightLevelData_to_x265_params(ContentLightLevelData(block))
    ELSE ""

FragmentC(block) ==
    IF IsMastering(block)
    THEN ":" \o MasteringDisplayData_to_libsvtav1_params(MasteringDisplayData(block))
    ELSE IF IsContentLight(block)
    THEN ":" \o ContentLightLevelData_to_libsvtav1_params(ContentLightLevelData(block))
    ELSE ""

RECURSIVE FragmentsA(_, _)
FragmentsA(blocks, n) ==
    IF n = 0 THEN "" ELSE FragmentsA(blocks, n - 1) \o FragmentA(blocks[n])
RECURSIVE FragmentsC(_, _)
FragmentsC(blocks, n) ==
    IF n = 0 THEN "" ELSE FragmentsC(blocks, n - 1) \o FragmentC(blocks[n])

C2_ScanAccumulatesInOrder ==
    side_data_list # None =>
        /\ x265_params =
               to_x265_params(color_data) \o FragmentsA(side_data_list[1], scanned)
        /\ libsvtav1_params =
               to_libsvtav1_params(color_data) \o FragmentsC(side_data_list[1], scanned)

C2_Witness ==
    /\ pc = "scan"
    /\ scanned = 2
    /\ IsContentLight(side_data_list[1][1])
    /\ IsContentLight(side_data_list[1][2])
    /\ side_data_list[1][1] # side_data_list[1][2]
    /\ x265_params = "colormatrix=bt2020nc:max-cll=1000,400:max-cll=4000,1000"
    /\ EndsWith(libsvtav1_params, ":content-light=1000,400:content-light=4000,1000")

(***************************************************************************)
(* C3.  expand_to_ratio(T) of the value parsed from "N/D" is N * T / D      *)
(* rounded to the nearest integer.                                         *)
(***************************************************************************)
C3_ExpandRoundsToNearest ==
    pc \in {"expanded", "printed"} =>
        ratio = RoundQuotient(md_item.numerator * target, md_item.denominator)

(***************************************************************************)
(* C4.  A mastering-display block with a rational field that is not a      *)
(* valid "N/D" pair, anywhere in side_data_list, aborts the frame: the     *)
(* function does not run to its end and prints no parameter string.        *)
(***************************************************************************)
C4_MalformedRationalAborts ==
    (/\ AllKeys \subseteq DOMAIN frame_data
     /\ \E i \in 1..Len(frame_data["side_data_list"]) :
            /\ IsMastering(frame_data["side_data_list"][i])
            /\ HasMalformedRational(frame_data["side_data_list"][i]))
    => (pc # "done" /\ ~EmitsSomeParams)

(***************************************************************************)
(* C5.  MDItem(raw_val) fails exactly when raw_val is not "N/D" with       *)
(* integer N and non-zero integer D; when it succeeds raw_value is raw_val. *)
(***************************************************************************)
C5_ConstructionContract ==
    pc # "MDItem" =>
        /\ (raised = "") <=> IsRationalString(raw_val)
        /\ md_item # NoObj => md_item.raw_value = raw_val

(***************************************************************************)
(* C6.  x265 and libaom resolve color_space by the same two tiers: a tag    *)
(* of the valid list passes through, else a key of the alias table is      *)
(* replaced by its alias, else the field is left out: "" for x265, the     *)
(* bare primaries/transfer pair for libaom.                                *)
(***************************************************************************)
C6_TwoTierResolution ==
    LET cs == color_data.color_space
        pair == "color-primaries=" \o color_data.color_primaries \o
                ":transfer-characteristics=" \o color_data.color_transfer
    IN /\ x265_params # Unbound =>
              /\ InList(cs, x265_valid_color_matrix) =>
                     x265_params = "colormatrix=" \o cs
              /\ (~InList(cs, x265_valid_color_matrix)
                      /\ cs \in DOMAIN x265_color_matrix_mapping) =>
                     x265_params = "colormatrix=" \o x265_color_matrix_mapping[cs]
              /\ (~InList(cs, x265_valid_color_matrix)
                      /\ cs \notin DOMAIN x265_color_matrix_mapping) =>
                     x265_params = ""
              /\ cs = "bt2020_ncl" => x265_params = "colormatrix=bt2020nc"
       /\ libaom_av1_params # Unbound =>
              /\ InList(cs, libaom_valid_matrix_coefficients) =>
                     libaom_av1_params = pair \o ":matrix-coefficients=" \o cs
              /\ (~InList(cs, libaom_valid_matrix_coefficients)
                      /\ cs \in DOMAIN libaom_matrix_coefficients_mapping) =>
                     libaom_av1_params = pair \o ":matrix-coefficients=" \o
                                         libaom_matrix_coefficients_mapping[cs]
              /\ (~InList(cs, libaom_valid_matrix_coefficients)
                      /\ cs \notin DOMAIN libaom_matrix_coefficients_mapping) =>
                     libaom_av1_params = pair
              /\ cs = "bt2020_ncl" =>
                     libaom_av1_params = pair \o ":matrix-coefficients=bt2020ncl"

C6_Witness ==
    /\ color_data.color_space = "bt2020_ncl"
    /\ x265_params = "colormatrix=bt2020nc"
    /\ libaom_av1_params =
           "color-primaries=bt2020:transfer-characteristics=smpte2084:matrix-coefficients=bt2020ncl"

(***************************************************************************)
(* C7.  The libsvtav1 fragment is the two table codes, 2 for a tag absent   *)
(* from its table, and ":matrix-coefficients=9" exactly when color_space    *)
(* contains "bt2020" (case-sensitive); no other matrix value appears.      *)
(***************************************************************************)
CodeIn(table, tag) == IF tag \in DOMAIN table THEN table[tag] ELSE 2

C7_Libsvtav1Fragment ==
    libsvtav1_params # Unbound =>
        LET cs == color_data.color_space
            codes == "color-primaries=" \o
                     IntStr(CodeIn(libsvtav1_color_primaries_mapping,
                                   color_data.color_primaries)) \o
                     ":transfer-characteristics=" \o
                     IntStr(CodeIn(libsvtav1_transfer_characteristics_mapping,
                                   color_data.color_transfer))
        IN /\ libsvtav1_params =
                  codes \o (IF Contains(cs, "bt2020") THEN ":matrix-coefficients=9" ELSE "")
           /\ Contains(libsvtav1_params, "matrix-coefficients") <=> Contains(cs, "bt2020")
           /\ (color_data.color_primaries = "bt709" /\ color_data.color_transfer = "smpte2084"
                   /\ cs = "unknown") =>
                  libsvtav1_params = "color-primaries=1:transfer-characteristics=16"
           /\ (color_data.color_primaries = "unknown" /\ color_data.color_transfer = "unknown"
                   /\ cs = "BT2020") =>
                  libsvtav1_params = "color-primaries=2:transfer-characteristics=2"

C7_Witness ==
    /\ color_data.color_space = "bt2020_ncl"
    /\ color_data.color_primaries = "jedec-p22"
    /\ color_data.color_transfer = "smpte2084"
    /\ libsvtav1_params =
           "color-primaries=2:transfer-characteristics=16:matrix-coefficients=9"

(***************************************************************************)
(* C8.  The x265 rendering of a mastering-display block is                  *)
(* display=G(gx,gy)B(bx,by)R(rx,ry)WP(wx,wy)L(max,min): each chromaticity   *)
(* is expand_to_ratio(50000) of the field of that name, each luminance     *)
(* expand_to_ratio(10000), written as plain integers.                      *)
(***************************************************************************)
Expanded(block, key, denominator) ==
    IntStr(expand_to_ratio(MDItem(block[key]), denominator))

ExpectedDisplay(block) ==
    "display=G(" \o Expanded(block, "green_x", 50000) \o "," \o
                    Expanded(block, "green_y", 50000) \o ")" \o
    "B(" \o Expanded(block, "blue_x", 50000) \o "," \o
            Expanded(block, "blue_y", 50000) \o ")" \o
    "R(" \o Expanded(block, "red_x", 50000) \o "," \o
            Expanded(block, "red_y", 50000) \o ")" \o
    "WP(" \o Expanded(block, "white_point_x", 50000) \o "," \o
             Expanded(block, "white_point_y", 50000) \o ")" \o
    "L(" \o Expanded(block, "max_luminance", 10000) \o "," \o
            Expanded(block, "min_luminance", 10000) \o ")"

C8_DisplayRendering ==
    (side_data_list # None /\ scanned > 0
         /\ IsMastering(side_data_list[1][scanned])) =>
        EndsWith(x265_params, ":" \o ExpectedDisplay(side_data_list[1][scanned]))

C8_Witness ==
    /\ pc = "done"
    /\ scanned = 1
    /\ IsMastering(side_data_list[1][1])
    /\ x265_params = "colormatrix=bt2020nc:display=G(13250,34500)B(7500,3000)"
                     \o "R(34000,16000)WP(15635,16450)L(10000000,50)"

(***************************************************************************)
(* C9.  A frame descriptor with the four mandatory keys and only           *)
(* well-formed side-data blocks, with or without a side_data_list key,     *)
(* runs to the end and prints the four parameter strings.                  *)
(***************************************************************************)
WellFormedFrame ==
    /\ MandatoryKeys \subseteq DOMAIN frame_data
    /\ "side_data_list" \in DOMAIN frame_data =>
           \A i \in 1..Len(frame_data["side_data_list"]) :
               IsMastering(frame_data["side_data_list"][i]) =>
                   ~HasMalformedRational(frame_data["side_data_list"][i])

C9_WellFormedFrameCompletes ==
    (pc # "validate" /\ WellFormedFrame) =>
        /\ pc \notin {"returned", "raised"}
        /\ pc = "done" => EmitsAllParams

(***************************************************************************)
(* C10.  Whatever color_space is, the value x265 writes after "colormatrix=" *)
(* and libaom after ":matrix-coefficients=" is in that target's valid list: *)
(* every alias is a valid value and no alias key is itself valid.          *)
(***************************************************************************)
C10_EmittedMatrixIsValid ==
    /\ \A k \in DOMAIN x265_color_matrix_mapping :
           /\ InList(x265_color_matrix_mapping[k], x265_valid_color_matrix)
           /\ ~InList(k, x265_valid_color_matrix)
    /\ \A k \in DOMAIN libaom_matrix_coefficients_mapping :
           /\ InList(libaom_matrix_coefficients_mapping[k],
                     libaom_valid_matrix_coefficients)
           /\ ~InList(k, libaom_valid_matrix_coefficients)
    /\ x265_params \notin {Unbound, ""} =>
           \E v \in RangeOf(x265_valid_color_matrix) :
               x265_params = "colormatrix=" \o v
    /\ (libaom_av1_params # Unbound
            /\ Contains(libaom_av1_params, ":matrix-coefficients=")) =>
           \E v \in RangeOf(libaom_valid_matrix_coefficients) :
               EndsWith(libaom_av1_params, "=" \o color_data.color_transfer
                                           \o ":matrix-coefficients=" \o v)

C10_Witness ==
    /\ color_data.color_space = "chroma-derived-nc"
    /\ x265_params = "colormatrix=chroma-derived-nc"
    /\ EndsWith(libaom_av1_params, ":matrix-coefficients=chromncl")

====
